---- MODULE Spec2Model ----
(***************************************************************************)
(* Model of backend/app/main.py: a FastAPI application with a permissive   *)
(* CORSMiddleware and two GET routes, started by main() under uvicorn on   *)
(* 127.0.0.1 and a port taken from sys.argv[1] (default 8765).             *)
(*                                                                         *)
(* The process is modelled from the start of main() to its end.  Requests  *)
(* arrive while the server listens, several may be in flight at once, and  *)
(* each is answered by the ASGI stack CORSMiddleware -> router -> handler. *)
(* Everything put on the wire is kept in the log `responses`.              *)
(***************************************************************************)
EXTENDS Integers, Sequences, FiniteSets, TLC

\* ------------------------------------------------------------------ bounds

\* Requests accepted over the life of one process.
MaxRequests == 2

\* ------------------------------------------------------ program constants

DefaultPort == 8765
Host == "127.0.0.1"
DefaultName == "World"

\* Port numbers a TCP socket can be asked to bind; any other value makes the
\* bind call raise.
TcpPorts == 0..65535

\* Ports the operating system may hand out when asked to bind port 0.
EphemeralPorts == {49152, 49153}

\* ALL_METHODS of the CORS middleware, which allow_methods=["*"] selects.
AllMethods == {"DELETE", "GET", "HEAD", "OPTIONS", "PATCH", "POST", "PUT"}

\* ------------------------------------------------- int(sys.argv[1]) parsing

Digits == <<"0", "1", "2", "3", "4", "5", "6", "7", "8", "9">>
IsDigit(c) == \E i \in 1..10 : Digits[i] = c
DigitVal(c) == (CHOOSE i \in 1..10 : Digits[i] = c) - 1
IsSpace(c) == c \in {" ", "\t", "\n"}

\* str.strip(): leading and trailing whitespace removed.
RECURSIVE LStrip(_)
LStrip(s) == IF s # <<>> /\ IsSpace(Head(s)) THEN LStrip(Tail(s)) ELSE s
RECURSIVE RStrip(_)
RStrip(s) ==
    IF s # <<>> /\ IsSpace(s[Len(s)]) THEN RStrip(SubSeq(s, 1, Len(s) - 1)) ELSE s
Strip(s) == RStrip(LStrip(s))

\* The digits of a decimal literal: non-empty, digits with single underscores
\* between them.
ValidDigits(s) ==
    /\ s # <<>>
    /\ IsDigit(s[1]) /\ IsDigit(s[Len(s)])
    /\ \A i \in 1..Len(s) : IsDigit(s[i]) \/ s[i] = "_"
    /\ \A i \in 1..(Len(s) - 1) : ~(s[i] = "_" /\ s[i + 1] = "_")

RECURSIVE DigitsValue(_, _)
DigitsValue(s, acc) ==
    IF s = <<>> THEN acc
    ELSE IF Head(s) = "_" THEN DigitsValue(Tail(s), acc)
    ELSE DigitsValue(Tail(s), 10 * acc + DigitVal(Head(s)))

\* int(s) for a str s: [ok |-> TRUE, val |-> n], or [ok |-> FALSE] where
\* Python raises ValueError.
ParseInt(s) ==
    LET t == Strip(s)
        signed == t # <<>> /\ Head(t) \in {"+", "-"}
        body == IF signed THEN Tail(t) ELSE t
        mag == DigitsValue(body, 0)
    IN IF ValidDigits(body)
       THEN [ok |-> TRUE, val |-> IF signed /\ Head(t) = "-" THEN 0 - mag ELSE mag]
       ELSE [ok |-> FALSE, val |-> 0]

\* ----------------------------------------------------------------- inputs

\* sys.argv[1:], each argument a sequence of characters.
ArgvChoices ==
    { <<>>,
      << <<"9", "9", "9", "9">> >>,
      << <<"9", "9", "9", "9">>, <<"x">> >>,
      << <<" ", "+", "1", "_", "0", "\n">> >>,
      << <<"0">> >>,
      << <<"-", "1">> >>,
      << <<"7", "0", "0", "0", "0">> >>,
      << <<"a", "b", "c">> >>,
      << <<"8", "0", "x">> >>,
      << <<"1", "_", "_", "0">> >>,
      << <<"9", ".", "5">> >>,
      << <<>> >> }

\* sys.version of the interpreter running the process.
Versions == {"3.11.4 (main)", "3.12.0 (main)"}

Names == {"", "Ada", "<b>&= "}
NoName == [present |-> FALSE, value |-> ""]
NameParams == {NoName} \cup {[present |-> TRUE, value |-> n] : n \in Names}

Paths == {"/api/health", "/api/hello", "/nope"}
Methods == {"GET", "OPTIONS"}
Origins == {"", "app://renderer"}

\* A request: method, path, the query parameter `name`, and the headers the
\* CORS middleware reads: Origin ("" when absent), whether a Cookie header is
\* sent, Access-Control-Request-Method ("" when absent) and
\* Access-Control-Request-Headers ("" when absent).  The query is varied on
\* /api/hello, the only route that reads it; Cookie and the preflight headers
\* are varied on requests that carry an Origin, the only ones on which the
\* middleware reads them.
Requests ==
    { r \in [method : Methods, path : Paths, name : NameParams,
             origin : Origins, cookie : BOOLEAN,
             acrm : {"", "GET", "PURGE"}, acrh : {"", "x-token"}] :
        /\ (r.path # "/api/hello" => r.name = NoName)
        /\ (r.origin = "" => ~r.cookie /\ r.acrm = "" /\ r.acrh = "")
        /\ (r.method # "OPTIONS" => r.acrm = "" /\ r.acrh = "")
        /\ (r.acrm = "" => r.acrh = "")
        /\ (r.acrm # "" => ~r.cookie)
        /\ (r.acrm = "PURGE" => r.acrh = "") }

\* ------------------------------------------------------------------ state

VARIABLES
    argv,          \* sys.argv[1:]
    sys_version,   \* sys.version
    pc,            \* "start", "resolved", "listening", "crashed", "exited", "terminated"
    port,          \* <<>> before main() computes it, then <<port>>
    bound,         \* <<>> while no socket is bound, then <<host, port>>
    bindAttempts,  \* bind calls made so far
    received,      \* requests accepted so far
    inflight,      \* requests accepted and not yet answered
    responses      \* every response sent: [req |-> request, resp |-> response]

vars == <<argv, sys_version, pc, port, bound, bindAttempts, received, inflight, responses>>

\* --------------------------------------------------------------- handlers

NoCors == [acao |-> "", acam |-> {}, acah |-> "", vary |-> FALSE]

Response(status, body) == [status |-> status, body |-> body, headers |-> NoCors]

\* health() reporting its own liveness word instead of "ok".
healthUp == [status |-> "up", python |-> sys_version]

\* health() reporting how many responses the server has sent so far.
healthCounting ==
    [status |-> "ok", python |-> sys_version, served |-> Cardinality(responses)]

\* async def health()
health == [status |-> "ok", python |-> sys_version]

\* hello() written with `name or "World"`: an empty name greets the default.
helloFalsy(name) ==
    [message |-> "Hello, " \o (IF name = "" THEN DefaultName ELSE name) \o "!"]

\* async def hello(name: str = "World")
hello(name) == [message |-> "Hello, " \o name \o "!"]

\* hello() declared with the default "world".
NameArgLower(req) == IF req.name.present THEN req.name.value ELSE "world"

\* The value bound to hello's parameter `name`: the query parameter when the
\* request has one, the declared default otherwise.
NameArg(req) == IF req.name.present THEN req.name.value ELSE DefaultName

\* The router: @app.get registers each path for GET alone.
Route(req) ==
    IF req.path = "/api/health"
    THEN IF req.method = "GET" THEN Response(200, health)
         ELSE Response(405, [detail |-> "Method Not Allowed"])
    ELSE IF req.path = "/api/hello"
    THEN IF req.method = "GET" THEN Response(200, hello(NameArg(req)))
         ELSE Response(405, [detail |-> "Method Not Allowed"])
    ELSE Response(404, [detail |-> "Not Found"])

\* CORSMiddleware.preflight_response with allow_origins, allow_methods and
\* allow_headers all ["*"]: answered by the middleware itself, 400 when the
\* requested method is none of ALL_METHODS, the requested headers mirrored.
PreflightResponse(req) ==
    [status |-> IF req.acrm \in AllMethods THEN 200 ELSE 400,
     body |-> [text |-> IF req.acrm \in AllMethods THEN "OK"
                        ELSE "Disallowed CORS method"],
     headers |-> [acao |-> "*", acam |-> AllMethods, acah |-> req.acrh,
                  vary |-> FALSE]]

\* The application without the middleware's header on ordinary responses.
SimpleResponseBare(req) == Route(req)

\* CORSMiddleware.simple_response: the inner application's response with
\* Access-Control-Allow-Origin added, "*" or, when the request carries a
\* cookie, the request's own origin (with Vary: Origin).
SimpleResponse(req) ==
    [Route(req) EXCEPT !.headers =
        [acao |-> IF req.cookie THEN req.origin ELSE "*",
         acam |-> {}, acah |-> "", vary |-> req.cookie]]

\* CORSMiddleware.__call__: a request without an Origin header goes to the
\* inner application untouched.
Cors(req) ==
    IF req.origin = "" THEN Route(req)
    ELSE IF req.method = "OPTIONS" /\ req.acrm # "" THEN PreflightResponse(req)
    ELSE SimpleResponse(req)

\* The application as uvicorn calls it.
App(req) == Cors(req)

\* ---------------------------------------------------------------- startup

\* main() catching ValueError and falling back to the default port.
PortOfLenient(args) ==
    IF Len(args) > 0 /\ ParseInt(args[1]).ok THEN ParseInt(args[1])
    ELSE [ok |-> TRUE, val |-> DefaultPort]

\* main() with another default port.
PortOfOtherDefault(args) ==
    IF Len(args) > 0 THEN ParseInt(args[1]) ELSE [ok |-> TRUE, val |-> 8000]

\* port = int(sys.argv[1]) if len(sys.argv) > 1 else 8765
PortOf(args) ==
    IF Len(args) > 0 THEN ParseInt(args[1]) ELSE [ok |-> TRUE, val |-> DefaultPort]

\* uvicorn.run called with host="0.0.0.0".
ListenAddressAny(p) == <<"0.0.0.0", p>>

\* The address uvicorn.run(app, host="127.0.0.1", port=port) listens on once
\* the socket is bound to port p.
ListenAddress(p) == <<Host, p>>

\* A failed bind tried again.
OnBindErrorRetry == pc' = "resolved"

\* A failed bind ends the process.
OnBindError == pc' = "exited"

\* Requests served as soon as the port is known.
CanServeEarly == pc \in {"resolved", "listening"}

\* Requests are accepted and answered only by a listening server.
CanServe == pc = "listening"

Init ==
    /\ argv \in ArgvChoices
    /\ sys_version \in Versions
    /\ pc = "start"
    /\ port = <<>>
    /\ bound = <<>>
    /\ bindAttempts = 0
    /\ received = 0
    /\ inflight = {}
    /\ responses = {}

\* main(), first statement: the port is computed; int() raising ValueError is
\* not caught and ends the process.
ResolvePort ==
    /\ pc = "start"
    /\ IF PortOf(argv).ok
       THEN port' = <<PortOf(argv).val>> /\ pc' = "resolved"
       ELSE port' = port /\ pc' = "crashed"
    /\ UNCHANGED <<argv, sys_version, bound, bindAttempts, received, inflight, responses>>

\* main(), second statement, the bind succeeding: port 0 is replaced by a port
\* of the operating system's choice.
BindOk ==
    /\ pc = "resolved"
    /\ port[1] \in TcpPorts
    /\ bindAttempts' = bindAttempts + 1
    /\ \E p \in (IF port[1] = 0 THEN EphemeralPorts ELSE {port[1]}) :
          bound' = ListenAddress(p)
    /\ pc' = "listening"
    /\ UNCHANGED <<argv, sys_version, port, received, inflight, responses>>

\* main(), second statement, the bind failing: the port is taken, not
\* permitted, or no TCP port at all.
BindError ==
    /\ pc = "resolved"
    /\ bindAttempts' = bindAttempts + 1
    /\ OnBindError
    /\ UNCHANGED <<argv, sys_version, port, bound, received, inflight, responses>>

\* ---------------------------------------------------------------- serving

\* A request arrives and is accepted.  `inflight` is a set: a request equal in
\* every field to one still in flight is accepted once that one is answered.
Receive(req) ==
    /\ CanServe
    /\ received < MaxRequests
    /\ req \notin inflight
    /\ received' = received + 1
    /\ inflight' = inflight \cup {req}
    /\ UNCHANGED <<argv, sys_version, pc, port, bound, bindAttempts, responses>>

\* An accepted request, any of those in flight, is answered.
Respond(req) ==
    /\ CanServe
    /\ req \in inflight
    /\ responses' = responses \cup {[req |-> req, resp |-> App(req)]}
    /\ inflight' = inflight \ {req}
    /\ UNCHANGED <<argv, sys_version, pc, port, bound, bindAttempts, received>>

\* The parent process ends the server: the socket is closed and the requests
\* in flight are dropped.
Terminate ==
    /\ pc \in {"start", "resolved", "listening"}
    /\ pc' = "terminated"
    /\ bound' = <<>>
    /\ inflight' = {}
    /\ UNCHANGED <<argv, sys_version, port, bindAttempts, received, responses>>

Next ==
    \/ ResolvePort
    \/ BindOk
    \/ BindError
    \/ \E req \in Requests : Receive(req)
    \/ \E req \in Requests : Respond(req)
    \/ Terminate

Spec == Init /\ [][Next]_vars

\* ----------------------------------------------------------------- claims

IsGet(r, path) == r.req.method = "GET" /\ r.req.path = path

\* C1: every GET /api/hello whose query carries name=s is answered 200 with
\* message "Hello, " + s + "!", s taken as it is: the empty string gives
\* "Hello, !" and not the default, special characters are kept.
C1_HelloVerbatim ==
    \A r \in responses :
        (IsGet(r, "/api/hello") /\ r.req.name.present) =>
            /\ r.resp.status = 200
            /\ r.resp.body = [message |-> "Hello, " \o r.req.name.value \o "!"]
            /\ (r.req.name.value = "" => r.resp.body.message = "Hello, !")
            /\ (r.req.name.value = "Ada" => r.resp.body.message = "Hello, Ada!")
            /\ (r.req.name.value = "<b>&= " => r.resp.body.message = "Hello, <b>&= !")

C1_Witness ==
    /\ \E r \in responses : IsGet(r, "/api/hello") /\ r.req.name = [present |-> TRUE, value |-> ""]
    /\ \E r \in responses : IsGet(r, "/api/hello") /\ r.req.name = [present |-> TRUE, value |-> "<b>&= "]

\* C2: GET /api/hello without a name parameter is answered 200 with message
\* "Hello, World!", and a request that supplies a name other than "World" is
\* never answered with the default greeting.
C2_HelloDefault ==
    \A r \in responses :
        IsGet(r, "/api/hello") =>
            /\ (~r.req.name.present =>
                    r.resp.status = 200 /\ r.resp.body = [message |-> "Hello, World!"])
            /\ (r.req.name.present /\ r.req.name.value # "World" =>
                    r.resp.body.message # "Hello, World!")

C2_Witness ==
    /\ \E r \in responses : IsGet(r, "/api/hello") /\ ~r.req.name.present
    /\ \E r \in responses : IsGet(r, "/api/hello") /\ r.req.name.present

\* C3: every GET /api/health answered by the server, whatever was requested
\* before it, has status 200, status field "ok" and a non-empty version.
C3_HealthOk ==
    \A r \in responses :
        IsGet(r, "/api/health") =>
            /\ r.resp.status = 200
            /\ r.resp.body.status = "ok"
            /\ r.resp.body.python = sys_version
            /\ r.resp.body.python # ""

C3_Witness ==
    /\ \E r \in responses : IsGet(r, "/api/health") /\ r.req.origin = ""
    /\ \E r \in responses : IsGet(r, "/api/health") /\ r.req.origin # ""

IsPreflight(req) == req.origin # "" /\ req.method = "OPTIONS" /\ req.acrm # ""

Arg9999 == <<"9", "9", "9", "9">>

\* C5 as stated: a listening server is bound to 127.0.0.1 and to the port
\* computed at startup, 8765 without an argument and the argument's integer
\* value with one.
C5_Original ==
    pc = "listening" =>
        /\ bound = <<Host, port[1]>>
        /\ (argv = <<>> => port[1] = 8765)
        /\ (argv # <<>> => port[1] = ParseInt(argv[1]).val)

C5_BoundInv ==
    pc = "listening" =>
        /\ bound # <<>>
        /\ bound[1] = "127.0.0.1"
        /\ (port[1] # 0 => bound[2] = port[1])
        /\ (port[1] = 0 => bound[2] \in 1..65535)
        /\ (argv = <<>> => port[1] = 8765)
        /\ (argv # <<>> => ParseInt(argv[1]).ok /\ port[1] = ParseInt(argv[1]).val)
        /\ (argv # <<>> /\ argv[1] = Arg9999 => bound[2] = 9999)

\* C5, amended: a listening server is bound to 127.0.0.1 and, when the port
\* computed at startup is not 0, to that port: 8765 without an argument, the
\* argument's integer value with one ("9999" gives 9999); for the value 0 the
\* bound port is one the operating system chose.  Host and port stay the same
\* for as long as the server listens.
C5_BoundAddress ==
    /\ []C5_BoundInv
    /\ [][pc = "listening" /\ pc' = "listening" => bound' = bound /\ port' = port]_vars

C5_Witness ==
    /\ pc = "listening"
    /\ argv # <<>> /\ argv[1] = Arg9999
    /\ responses # {}

BadArgs ==
    { <<"a", "b", "c">>, <<"8", "0", "x">>, <<"1", "_", "_", "0">>,
      <<"9", ".", "5">>, <<>> }

\* C6 as stated: with no argument, or with one that is no integer, the port
\* is 8765 and startup goes on towards listening.
C6_Original ==
    ((argv = <<>> \/ argv[1] \in BadArgs) /\ pc # "start" /\ pc # "terminated") =>
        /\ pc # "crashed"
        /\ port = <<8765>>

\* C6, amended: with no argument the port is 8765, startup does not crash, the
\* bind on 8765 can succeed and the server then listens on 127.0.0.1:8765.
C6_DefaultPort ==
    argv = <<>> =>
        /\ pc # "crashed"
        /\ (pc \in {"resolved", "listening", "exited"} => port = <<8765>>)
        /\ (pc = "resolved" => ENABLED BindOk)
        /\ (pc = "listening" => bound = <<"127.0.0.1", 8765>>)

C6_Witness == argv = <<>> /\ pc = "listening" /\ bound = <<"127.0.0.1", 8765>>

\* C7: a first argument that is no integer crashes the process in main()'s
\* first statement: no port is computed, no bind is attempted, the server
\* never listens and no request is accepted or answered; and nothing else
\* crashes the process.
C7_BadArgCrashes ==
    /\ (argv # <<>> /\ argv[1] \in BadArgs) =>
          /\ pc \in {"start", "crashed", "terminated"}
          /\ port = <<>>
          /\ bindAttempts = 0
          /\ bound = <<>>
          /\ received = 0
          /\ responses = {}
          /\ (pc = "start" => ENABLED ResolvePort /\ ~ENABLED BindOk)
    /\ (pc = "crashed" => argv # <<>> /\ argv[1] \in BadArgs /\ ~ENABLED Next)

C7_Witness == pc = "crashed" /\ argv # <<>> /\ argv[1] = <<"8", "0", "x">>

C8_Inv ==
    /\ bindAttempts <= 1
    /\ (pc = "exited" =>
          /\ bindAttempts = 1
          /\ bound = <<>>
          /\ received = 0
          /\ responses = {}
          /\ ~ENABLED Next)

\* C8: a failed bind ends the process: it has made exactly one bind attempt,
\* it has never listened or served, and from then on it takes no step, so it
\* neither retries nor binds another port or address.
C8_BindFailureFatal ==
    /\ []C8_Inv
    /\ [][pc = "resolved" /\ bound' = <<>> /\ pc' # "terminated" => pc' = "exited"]_vars
    /\ [][pc = "exited" => pc' = "exited" /\ bound' = <<>>]_vars

C8_Witness == pc = "exited" /\ port = <<8765>> /\ bindAttempts = 1

Rank(s) ==
    CASE s = "start" -> 0
      [] s = "resolved" -> 1
      [] s = "listening" -> 2
      [] OTHER -> 3

C9_Inv ==
    /\ pc \in {"start", "resolved", "listening", "crashed", "exited", "terminated"}
    /\ (received > 0 \/ responses # {} \/ inflight # {} => pc \in {"listening", "terminated"})
    /\ (bound # <<>> <=> pc = "listening")
    /\ (pc = "listening" => ENABLED Terminate)
    /\ (pc = "listening" /\ inflight # {} => ENABLED (\E req \in inflight : Respond(req)))

\* C9: the server starts listening at most once, from the state in which the
\* port is known; it accepts and answers requests only while listening; a
\* listening server stays listening, able to answer what it has accepted,
\* until it is terminated from outside; handling a request never changes the
\* lifecycle state; and an ended process takes no further step.
C9_Lifecycle ==
    /\ []C9_Inv
    /\ [][/\ Rank(pc') >= Rank(pc)
          /\ (pc' = "listening" /\ pc # "listening" => pc = "resolved")
          /\ (pc = "listening" => pc' \in {"listening", "terminated"})
          /\ (responses' # responses \/ received' # received =>
                 pc = "listening" /\ pc' = "listening")
          /\ (Rank(pc) = 3 => pc' = pc)]_vars

C9_Witness == pc = "terminated" /\ Cardinality(responses) = 2

\* What the two handlers read of a request; the remaining fields are headers
\* read by the middleware alone.
Params(req) == <<req.method, req.path, req.name>>

C10_Inv ==
    \A a, b \in responses :
        /\ (a.req = b.req => a.resp = b.resp)
        /\ (Params(a.req) = Params(b.req) /\ ~IsPreflight(a.req) /\ ~IsPreflight(b.req) =>
               a.resp.status = b.resp.status /\ a.resp.body = b.resp.body)

====
